---- MODULE Spec2Model ----
(***************************************************************************)
(* Stock sentiment analytics: the gRPC API (unary and streaming sentiment  *)
(* queries over the columnar store) and the SentimentScore record.         *)
(*                                                                         *)
(* Conventions.  A Python str is a sequence of one-character strings, so   *)
(* that len() and isalnum() are computed; a message text is a sequence of  *)
(* its parts.  A Python dict is a record whose DOMAIN is its key set.      *)
(* Polarities are fixed-point hundredths: 100 is 1.0, -100 is -1.0.        *)
(***************************************************************************)
EXTENDS Integers, Sequences, FiniteSets, Bags, TLC

VARIABLES
    table,           \* the sentiment table of the columnar store: a bag of rows
    entry,           \* the entry point handling the request
    req,             \* the request
    pc,              \* position of the handler / generator
    rowiter,         \* rows the running query's iterator has not handed out yet
    tweets,          \* tweets the streaming handler has not emitted yet
    rows_to_insert,  \* rows the streaming handler has collected for the store
    out,             \* messages delivered on the stream, in order
    cancelled,       \* the caller cancelled the stream
    storeCalls,      \* store invocations (query, insert) made for the request
    ioCalls,         \* other I/O made for the request (feed, blob store, metrics)
    storeFailed,     \* the store raised GoogleAPIError during the request
    status,          \* gRPC status code of the call
    result,          \* dict returned by SentimentService.get_stock_sentiment
    response,        \* SentimentResponse returned by GetStockSentiment
    cand,            \* candidate fields handed to the SentimentScore constructor
    rec,             \* the SentimentScore constructed from them
    verdict,         \* what each place that validates tickers said of cand.ticker
    raw_data,        \* the batch of raw records handed to transform
    transformed,     \* what transform returned for it
    etlPc,           \* position of the transform / load run
    load_data,       \* the records handed to load
    loadResult,      \* per load implementation: what it returned
    insertCalls,     \* per load implementation: calls of the store's insert operation
    loadLog,         \* per load implementation: levels of the log entries written
    storeRejected,   \* per load implementation: rows the store rejected
    loggedErrors,    \* per load implementation: rejected rows written to the error log
    tableExists,     \* the sentiment table exists in the store
    ctPc,            \* per component: position in create_table_if_not_exists
    ctCalls,         \* per component: calls of create_table_if_not_exists begun
    ctError,         \* per component: the exception its last call raised
    createCalls,     \* calls of the store's create_table
    createdWhilePresent, \* those of them issued while the table existed
    now,             \* the wall clock, in seconds
    bucket,          \* the blobs staged in the bucket
    reliable,        \* the blob store never fails in this behaviour
    ingPc,           \* position of the ingestion loop
    ingIdx,          \* index of the ticker the ingestion loop handles next
    feedSaid,        \* the feed's answers to the two searches of the last fetch
    fetched,         \* what the last fetch_tweets returned
    staged,          \* the uploads that succeeded so far
    overwritten,     \* the uploads whose blob a later upload replaced
    runBlob,         \* the blob the last pipeline iteration extracted
    prevBlob,        \* the blob the iteration before it extracted
    extracted,       \* the uploads some pipeline iteration extracted
    runError,        \* where the last pipeline iteration raised
    extractFault     \* what went wrong in the last extract_from_gcs

apiVars == <<table, entry, req, pc, rowiter, tweets, rows_to_insert, out, cancelled,
             storeCalls, ioCalls, storeFailed, status, result, response>>
recVars == <<cand, rec, verdict>>
etlVars == <<raw_data, transformed, etlPc, load_data, loadResult, insertCalls, loadLog,
             storeRejected, loggedErrors>>
tblVars == <<tableExists, ctPc, ctCalls, ctError, createCalls, createdWhilePresent>>
pipeVars == <<now, bucket, reliable, ingPc, ingIdx, feedSaid, fetched, staged,
              overwritten, runBlob, prevBlob, extracted, runError, extractFault>>
sysVars == <<tblVars, pipeVars>>
vars == <<table, entry, req, pc, rowiter, tweets, rows_to_insert, out, cancelled,
          storeCalls, ioCalls, storeFailed, status, result, response, cand, rec,
          verdict, etlVars, sysVars>>

-----------------------------------------------------------------------------
(* Bounds *)

MaxCopies == 1      \* copies of one seed row in the initial table
MaxTweets == 2      \* tweets one feed search returns

-----------------------------------------------------------------------------
(* Python values and strings *)

None == <<"None">>
EmptyStr == << >>

Str(s) == <<s>>

AlnumChars == {"A", "P", "L", "T", "S", "G", "O", "E", "B", "R", "K"}

isalnum(s) == Len(s) > 0 /\ \A i \in 1..Len(s) : s[i] \in AlnumChars

AAPL == <<"A", "A", "P", "L">>
TSLA == <<"T", "S", "L", "A">>
GOOGLE == <<"G", "O", "O", "G", "L", "E">>
BRK_B == <<"B", "R", "K", ".", "B">>

Tickers == {EmptyStr, AAPL, TSLA, GOOGLE, BRK_B}

MaxTickerLen == 5

\* the ticker check shared by the service and the record constructor
InvalidTicker(ticker) ==
    ticker = EmptyStr \/ ~isalnum(ticker) \/ Len(ticker) > MaxTickerLen

Get(d, k, default) == IF k \in DOMAIN d THEN d[k] ELSE default

SetMin(S) == CHOOSE x \in S : \A y \in S : x <= y

-----------------------------------------------------------------------------
(* Error texts *)

ServiceTickerError == Str("Ticker must be a valid alphanumeric string (max 5 characters)")
ModelTickerError == Str("Ticker must be a non-empty string (max 5 characters)")
TimeRangeError == Str("Start time must be less than end time")
GoogleAPIErrorText == "store failure"
InternalError(cause) == <<"Internal server error: ", cause>>
NoDataError(ticker, bq_timeframe) ==
    <<"No data available for ">> \o ticker \o <<" in the last ", bq_timeframe>>
InsertError == Str("Failed to write to BigQuery: errors")

-----------------------------------------------------------------------------
(* SentimentScore (data/models.py) *)

\* SentimentScore.__init__: the hand-written constructor, which @dataclass keeps
\* (it generates __init__ only when the class defines none), so __post_init__
\* is never run.
SentimentScore(ticker, sentiment_score, timestamp, data_point_count, error) ==
    [ticker |-> ticker, sentiment_score |-> sentiment_score, timestamp |-> timestamp,
     data_point_count |-> data_point_count,
     error |-> IF InvalidTicker(ticker) THEN ModelTickerError ELSE error]

is_valid(score) == score.error = None

from_dict(data) ==
    SentimentScore(Get(data, "ticker", EmptyStr), Get(data, "sentiment_score", 0),
                   Get(data, "timestamp", 0), Get(data, "data_point_count", 0),
                   Get(data, "error", None))

to_dict(score) ==
    [ticker |-> score.ticker, sentiment_score |-> score.sentiment_score,
     timestamp |-> score.timestamp, data_point_count |-> score.data_point_count,
     error |-> score.error]

PolarityError == Str("Sentiment score must be between -1.0 and 1.0")
TimestampError == Str("Timestamp must be a non-negative integer")
CountError == Str("Data point count must be a non-negative integer")

\* SentimentScore.__post_init__: only the __init__ that @dataclass generates
\* calls it, and the class keeps its own __init__, so no constructor runs it
post_init(score) ==
    LET e1 == IF score.ticker = EmptyStr \/ Len(score.ticker) > MaxTickerLen
              THEN ModelTickerError ELSE score.error
        e2 == IF ~(-100 <= score.sentiment_score /\ score.sentiment_score <= 100)
              THEN PolarityError ELSE e1
        e3 == IF score.timestamp < 0 THEN TimestampError ELSE e2
        e4 == IF score.data_point_count < 0 THEN CountError ELSE e3
    IN [score EXCEPT !.error = e4]

(* Values of a field whose Python type varies (a timestamp may be None, an int,
   a str or a datetime): type is the Python type, n the number, s the text *)

PyNone == [type |-> "NoneType", n |-> 0, s |-> << >>]
PyInt(n) == [type |-> "int", n |-> n, s |-> << >>]
PyStr(s) == [type |-> "str", n |-> 0, s |-> s]
PyDatetime(n) == [type |-> "datetime", n |-> n, s |-> << >>]

-----------------------------------------------------------------------------
(* validate_schema_compatibility (data/schema.py); in the rows of this model
   ticker and source are always str, sentiment_score and data_point_count
   always numbers, so of the isinstance tests only the timestamp's can fail *)

RequiredFields == {"ticker", "sentiment_score", "timestamp", "data_point_count"}

validate_schema_compatibility(data) ==
    /\ RequiredFields \subseteq DOMAIN data
    /\ Len(data.ticker) <= MaxTickerLen
    /\ -100 <= data.sentiment_score /\ data.sentiment_score <= 100
    /\ data.timestamp.type \in {"int", "float"}
    /\ data.data_point_count >= 0

-----------------------------------------------------------------------------
(* The columnar store *)

SeedRows ==
    { [ticker |-> AAPL, timestamp |-> 0, sentiment_score |-> 80],
      [ticker |-> AAPL, timestamp |-> 59, sentiment_score |-> -20],
      [ticker |-> AAPL, timestamp |-> 60, sentiment_score |-> 50],
      [ticker |-> AAPL, timestamp |-> 3600, sentiment_score |-> -100],
      [ticker |-> TSLA, timestamp |-> 60, sentiment_score |-> 10] }

Tables == UNION { [S -> 1..MaxCopies] : S \in SUBSET SeedRows }

\* WHERE ticker = @ticker AND timestamp BETWEEN @start_time AND @end_time
Matching(tbl, ticker, start_time, end_time) ==
    { r \in BagToSet(tbl) : /\ r.ticker = ticker
                            /\ start_time <= r.timestamp
                            /\ r.timestamp <= end_time }

\* GROUP BY FLOOR(UNIX_SECONDS(timestamp) / @interval_seconds)
GroupKey(r, interval_seconds) == r.timestamp \div interval_seconds

\* COUNT(*) over the rows of a group (a row stored n times counts n times)
RECURSIVE CountRows(_, _)
CountRows(tbl, group) ==
    IF group = {} THEN 0
    ELSE LET r == CHOOSE x \in group : TRUE
         IN CopiesIn(r, tbl) + CountRows(tbl, group \ {r})

\* the numerator of AVG(sentiment_score)
RECURSIVE SumScores(_, _)
SumScores(tbl, group) ==
    IF group = {} THEN 0
    ELSE LET r == CHOOSE x \in group : TRUE
         IN CopiesIn(r, tbl) * r.sentiment_score + SumScores(tbl, group \ {r})

\* SELECT AVG(sentiment_score), MIN(UNIX_SECONDS(timestamp)), COUNT(*) of one group
\* a defect: the group's anchor is its latest timestamp
GroupRow_MaxTimestamp(tbl, group) ==
    LET n == CountRows(tbl, group)
    IN [sentiment_score |-> SumScores(tbl, group) \div n,
        timestamp |-> CHOOSE t \in { r.timestamp : r \in group } :
                          \A r \in group : r.timestamp <= t,
        data_point_count |-> n]

\* a defect: every group is reported with a count of one
GroupRow_CountsOne(tbl, group) ==
    LET n == CountRows(tbl, group)
    IN [sentiment_score |-> SumScores(tbl, group) \div n,
        timestamp |-> SetMin({ r.timestamp : r \in group }),
        data_point_count |-> 1]

GroupRow(tbl, group) ==
    LET n == CountRows(tbl, group)
    IN [sentiment_score |-> SumScores(tbl, group) \div n,
        timestamp |-> SetMin({ r.timestamp : r \in group }),
        data_point_count |-> n]

GroupRows(tbl, ticker, start_time, end_time, interval_seconds) ==
    LET m == Matching(tbl, ticker, start_time, end_time)
        keys == { GroupKey(r, interval_seconds) : r \in m }
    IN { GroupRow(tbl, { r \in m : GroupKey(r, interval_seconds) = k }) : k \in keys }

\* a defect: ORDER BY timestamp DESC
RECURSIVE OrderByTimestampDesc(_)
OrderByTimestampDesc(rows) ==
    IF rows = {} THEN << >>
    ELSE LET last == CHOOSE r \in rows : \A q \in rows : q.timestamp <= r.timestamp
         IN <<last>> \o OrderByTimestampDesc(rows \ {last})

\* ORDER BY timestamp ASC (the alias of MIN(UNIX_SECONDS(timestamp)))
RECURSIVE OrderByTimestamp(_)
OrderByTimestamp(rows) ==
    IF rows = {} THEN << >>
    ELSE LET first == CHOOSE r \in rows : \A q \in rows : r.timestamp <= q.timestamp
         IN <<first>> \o OrderByTimestamp(rows \ {first})

\* the aggregate query of stream_stock_sentiment as the store evaluates it
Aggregate(tbl, ticker, start_time, end_time, interval_seconds) ==
    OrderByTimestamp(GroupRows(tbl, ticker, start_time, end_time, interval_seconds))

-----------------------------------------------------------------------------
(* Requests *)

INTERVAL_1M == "INTERVAL_1M"
INTERVAL_1H == "INTERVAL_1H"
INTERVAL_1D == "INTERVAL_1D"
INTERVAL_5H == "5h"
IntervalTokens == {INTERVAL_1M, INTERVAL_1H, INTERVAL_1D, INTERVAL_5H}
SupportedIntervals == {INTERVAL_1M, INTERVAL_1H, INTERVAL_1D}

TIMEFRAME_1H == "TIMEFRAME_1H"
TIMEFRAME_1D == "TIMEFRAME_1D"
TIMEFRAME_1W == "TIMEFRAME_1W"
TIMEFRAME_UNSET == "TIMEFRAME_UNSPECIFIED"
TIMEFRAME_5H == "5h"
TimeframeTokens == {TIMEFRAME_UNSET, TIMEFRAME_1H, TIMEFRAME_1D, TIMEFRAME_1W, TIMEFRAME_5H}

DefaultIntervalSeconds == 3600

\* interval_map.get(interval, 3600)
interval_map_get(interval, default) ==
    CASE interval = INTERVAL_1M -> 60
      [] interval = INTERVAL_1H -> 3600
      [] interval = INTERVAL_1D -> 86400
      [] OTHER -> default

\* a defect: a token outside the table is passed on as it is
timeframe_map_get_NoDefault(timeframe, default) ==
    CASE timeframe = TIMEFRAME_1H -> "1 HOUR"
      [] timeframe = TIMEFRAME_1D -> "24 HOUR"
      [] timeframe = TIMEFRAME_1W -> "7 DAY"
      [] OTHER -> timeframe

\* timeframe_map.get(timeframe, "1 HOUR")
timeframe_map_get(timeframe, default) ==
    CASE timeframe = TIMEFRAME_1H -> "1 HOUR"
      [] timeframe = TIMEFRAME_1D -> "24 HOUR"
      [] timeframe = TIMEFRAME_1W -> "7 DAY"
      [] OTHER -> default

TimeRanges == { <<0, 7200>>, <<60, 3600>>, <<60, 60>>, <<7200, 60>> }

NoRequest == [ticker |-> EmptyStr, start_time |-> 0, end_time |-> 0,
              interval |-> INTERVAL_1H, timeframe |-> TIMEFRAME_UNSET,
              wholeSeconds |-> TRUE]


StreamRequests ==
    { [ticker |-> t, start_time |-> rng[1], end_time |-> rng[2], interval |-> iv,
       timeframe |-> TIMEFRAME_UNSET, wholeSeconds |-> w] :
         t \in Tickers, rng \in TimeRanges, iv \in IntervalTokens, w \in BOOLEAN }

\* rows a store double hands to the unary query (tests/test_service.py)
UnaryRows == { [sentiment_score |-> 75, timestamp |-> 3600, data_point_count |-> 50] }

\* SentimentResponse(): every field at its protobuf default
DefaultResponse ==
    [ticker |-> EmptyStr, sentiment_score |-> 0, timestamp |-> 0,
     data_point_count |-> 0, error |-> EmptyStr]

ErrorDict(text) == [error |-> text]

IsError(m) == "error" \in DOMAIN m /\ m.error # None /\ m.error # EmptyStr

IsBucket(m) == ~IsError(m)

\* the tweets a feed search returns, most recent first
Feed(n) ==
    [i \in 1..n |-> [created_at |-> IF i % 2 = 1 THEN 60 ELSE 0,
                     polarity |-> IF i % 2 = 1 THEN 50 ELSE -20]]

RECURSIVE SeqToBag(_)
SeqToBag(rows) ==
    IF rows = << >> THEN EmptyBag
    ELSE SetToBag({Head(rows)}) (+) SeqToBag(Tail(rows))

-----------------------------------------------------------------------------
(* Initial states *)

InitApiIdle ==
    /\ entry = "idle"
    /\ req = NoRequest
    /\ pc = "Idle"
    /\ rowiter = << >>
    /\ tweets = << >>
    /\ rows_to_insert = << >>
    /\ out = << >>
    /\ cancelled = FALSE
    /\ storeCalls = 0
    /\ ioCalls = 0
    /\ storeFailed = FALSE
    /\ status = "OK"
    /\ result = << >>
    /\ response = DefaultResponse

NoCandidate ==
    [ticker |-> EmptyStr, sentiment_score |-> 0, timestamp |-> 0,
     data_point_count |-> 0, error |-> None]

InitRecordIdle ==
    /\ cand = NoCandidate
    /\ rec = << >>
    /\ verdict = << >>

LoadImplementations == {"SentimentPipeline", "BigQueryClient"}

InitLoadIdle ==
    /\ load_data = << >>
    /\ loadResult = [impl \in LoadImplementations |-> "pending"]
    /\ insertCalls = [impl \in LoadImplementations |-> 0]
    /\ loadLog = [impl \in LoadImplementations |-> << >>]
    /\ storeRejected = [impl \in LoadImplementations |-> {}]
    /\ loggedErrors = [impl \in LoadImplementations |-> {}]

InitEtlIdle ==
    /\ raw_data = << >>
    /\ transformed = << >>
    /\ etlPc = "Idle"
    /\ InitLoadIdle

\* the components that ensure the table at start-up
Components == {"SentimentPipeline", "BigQueryClient"}

InitTableIdle ==
    /\ tableExists = TRUE
    /\ ctPc = [c \in Components |-> "Idle"]
    /\ ctCalls = [c \in Components |-> 0]
    /\ ctError = [c \in Components |-> "none"]
    /\ createCalls = 0
    /\ createdWhilePresent = 0

\* no blob: the value of runBlob and prevBlob before any extraction
NoBlob == [name |-> -1, by |-> 0]

InitPipeIdle ==
    /\ now = 0
    /\ bucket = {}
    /\ reliable = TRUE
    /\ ingPc = "Idle"
    /\ ingIdx = 1
    /\ feedSaid = <<"none", "none">>
    /\ fetched = << >>
    /\ staged = {}
    /\ overwritten = {}
    /\ runBlob = NoBlob
    /\ prevBlob = NoBlob
    /\ extracted = {}
    /\ runError = "none"
    /\ extractFault = "none"

InitSysIdle ==
    /\ InitTableIdle
    /\ InitPipeIdle

Init ==
    /\ table \in Tables
    /\ InitSysIdle
    /\ InitApiIdle
    /\ InitRecordIdle
    /\ InitEtlIdle

-----------------------------------------------------------------------------
(* Unary: GetStockSentiment (server.py) over get_stock_sentiment (service.py) *)

ReceiveUnary ==
    /\ entry = "idle"
    /\ \E t \in Tickers, tf \in TimeframeTokens :
          req' = [NoRequest EXCEPT !.ticker = t, !.timeframe = tf]
    /\ entry' = "unary"
    /\ pc' = "Handling"
    /\ UNCHANGED <<table, rowiter, tweets, rows_to_insert, out, cancelled, storeCalls,
                   ioCalls, storeFailed, status, result, response, cand, rec,
                   verdict, etlVars, sysVars>>

\* a defect: an empty result is answered with a zeroed record and no error
get_stock_sentiment_NoError(ticker, timeframe, raised, rows) ==
    IF InvalidTicker(ticker) THEN ErrorDict(ServiceTickerError)
    ELSE IF raised THEN ErrorDict(InternalError(GoogleAPIErrorText))
    ELSE IF rows # << >>
         THEN to_dict(SentimentScore(ticker, Head(rows).sentiment_score,
                                     Head(rows).timestamp,
                                     Head(rows).data_point_count, None))
         ELSE to_dict(SentimentScore(ticker, 0, 0, 0, None))

\* get_stock_sentiment; raised and rows are the store's answer to the query,
\* which is issued only for a well-formed ticker
get_stock_sentiment(ticker, timeframe, raised, rows) ==
    IF InvalidTicker(ticker) THEN ErrorDict(ServiceTickerError)
    ELSE IF raised THEN ErrorDict(InternalError(GoogleAPIErrorText))
    ELSE IF rows # << >>
         THEN to_dict(SentimentScore(ticker, Head(rows).sentiment_score,
                                     Head(rows).timestamp,
                                     Head(rows).data_point_count, None))
         ELSE to_dict(SentimentScore(ticker, 0, 0, 0,
                          NoDataError(ticker, timeframe_map_get(timeframe, "1 HOUR"))))

\* SentimentResponse(ticker=score.ticker, ..., error=score.error or "")
ResponseOf(score) ==
    [ticker |-> score.ticker, sentiment_score |-> score.sentiment_score,
     timestamp |-> score.timestamp, data_point_count |-> score.data_point_count,
     error |-> IF score.error = None THEN EmptyStr ELSE score.error]

GetStockSentiment ==
    /\ entry = "unary"
    /\ pc = "Handling"
    /\ pc' = "Closed"
    /\ LET timeframe == IF req.timeframe = TIMEFRAME_UNSET THEN TIMEFRAME_1H
                        ELSE req.timeframe
           answer(raised, rows) ==
               /\ result' = get_stock_sentiment(req.ticker, timeframe, raised, rows)
               /\ response' = ResponseOf(from_dict(result'))
               /\ status' = status
       IN \/ /\ req.ticker = EmptyStr
             /\ status' = "INVALID_ARGUMENT"
             /\ response' = DefaultResponse
             /\ UNCHANGED <<result, storeCalls, storeFailed, rowiter>>
          \/ /\ req.ticker # EmptyStr
             /\ InvalidTicker(req.ticker)
             /\ answer(FALSE, << >>)
             /\ UNCHANGED <<storeCalls, storeFailed, rowiter>>
          \/ /\ ~InvalidTicker(req.ticker)
             /\ storeCalls' = storeCalls + 1
             /\ \/ /\ storeFailed' = TRUE
                   /\ rowiter' = << >>
                   /\ answer(TRUE, << >>)
                \/ /\ storeFailed' = FALSE
                   /\ \E rows \in {<< >>} \cup { <<r>> : r \in UnaryRows } :
                         /\ rowiter' = rows
                         /\ answer(FALSE, rows)
    /\ UNCHANGED <<table, entry, req, tweets, rows_to_insert, out, cancelled, ioCalls,
                   cand, rec,
                   verdict, etlVars, sysVars>>

-----------------------------------------------------------------------------
(* Streaming in the service layer: the generator stream_stock_sentiment *)

ReceiveStreamService ==
    /\ entry = "idle"
    /\ \E r \in StreamRequests : r.wholeSeconds /\ req' = r
    /\ entry' = "svc"
    /\ pc' = "Validating"
    /\ UNCHANGED <<table, rowiter, tweets, rows_to_insert, out, cancelled, storeCalls,
                   ioCalls, storeFailed, status, result, response, cand, rec,
                   verdict, etlVars, sysVars>>

\* lines 117-131: the checks before the query, and the interval lookup
svc_Validate ==
    /\ entry = "svc"
    /\ pc = "Validating"
    /\ \/ /\ InvalidTicker(req.ticker)
          /\ out' = Append(out, ErrorDict(ServiceTickerError))
          /\ pc' = "YieldedError"
       \/ /\ ~InvalidTicker(req.ticker)
          /\ req.start_time >= req.end_time
          /\ out' = Append(out, ErrorDict(TimeRangeError))
          /\ pc' = "YieldedError"
       \/ /\ ~InvalidTicker(req.ticker)
          /\ req.start_time < req.end_time
          /\ out' = out
          /\ pc' = "Querying"
    /\ UNCHANGED <<table, entry, req, rowiter, tweets, rows_to_insert, cancelled,
                   storeCalls, ioCalls, storeFailed, status, result, response, cand, rec,
                   verdict, etlVars, sysVars>>

\* a defect: the store's error escapes the generator instead of being reported
svc_Query_Uncaught ==
    /\ entry = "svc"
    /\ pc = "Querying"
    /\ storeCalls' = storeCalls + 1
    /\ \/ /\ storeFailed' = TRUE
          /\ status' = "UNKNOWN"
          /\ pc' = "Closed"
          /\ UNCHANGED <<out, rowiter>>
       \/ /\ rowiter' = Aggregate(table, req.ticker, req.start_time, req.end_time,
                           interval_map_get(req.interval, DefaultIntervalSeconds))
          /\ pc' = "Emitting"
          /\ UNCHANGED <<out, storeFailed, status>>
    /\ UNCHANGED <<table, entry, req, tweets, rows_to_insert, cancelled, ioCalls,
                   result, response, cand, rec,
                   verdict, etlVars, sysVars>>

\* lines 153-155 (and 163-165): the query is issued; the store raises or answers
svc_Query ==
    /\ entry = "svc"
    /\ pc = "Querying"
    /\ storeCalls' = storeCalls + 1
    /\ \/ /\ storeFailed' = TRUE
          /\ out' = Append(out, ErrorDict(InternalError(GoogleAPIErrorText)))
          /\ pc' = "YieldedError"
          /\ UNCHANGED rowiter
       \/ /\ rowiter' = Aggregate(table, req.ticker, req.start_time, req.end_time,
                           interval_map_get(req.interval, DefaultIntervalSeconds))
          /\ pc' = "Emitting"
          /\ UNCHANGED <<out, storeFailed>>
    /\ UNCHANGED <<table, entry, req, tweets, rows_to_insert, cancelled, ioCalls,
                   status, result, response, cand, rec,
                   verdict, etlVars, sysVars>>

BucketDict(ticker, row) ==
    [ticker |-> ticker, sentiment_score |-> row.sentiment_score,
     timestamp |-> row.timestamp, data_point_count |-> row.data_point_count]

\* a defect: the error is reported from inside the loop, which then goes on
svc_NextRow_GoesOn ==
    /\ entry = "svc"
    /\ pc = "Emitting"
    /\ \/ /\ rowiter # << >>
          /\ out' = Append(out, BucketDict(req.ticker, Head(rowiter)))
          /\ rowiter' = Tail(rowiter)
          /\ UNCHANGED <<pc, storeFailed>>
       \/ /\ rowiter # << >>
          /\ storeFailed' = TRUE
          /\ out' = Append(out, ErrorDict(InternalError(GoogleAPIErrorText)))
          /\ rowiter' = Tail(rowiter)
          /\ UNCHANGED pc
       \/ /\ rowiter = << >>
          /\ pc' = "Closed"
          /\ UNCHANGED <<out, rowiter, storeFailed>>
    /\ UNCHANGED <<table, entry, req, tweets, rows_to_insert, cancelled, storeCalls,
                   ioCalls, status, result, response, cand, rec,
                   verdict, etlVars, sysVars>>

\* lines 156-165: the loop asks the iterator for the next row; the iterator hands
\* one out (it is yielded), raises while fetching it, or is exhausted
svc_NextRow ==
    /\ entry = "svc"
    /\ pc = "Emitting"
    /\ \/ /\ rowiter # << >>
          /\ out' = Append(out, BucketDict(req.ticker, Head(rowiter)))
          /\ rowiter' = Tail(rowiter)
          /\ UNCHANGED <<pc, storeFailed>>
       \/ /\ storeFailed' = TRUE
          /\ out' = Append(out, ErrorDict(InternalError(GoogleAPIErrorText)))
          /\ pc' = "YieldedError"
          /\ UNCHANGED rowiter
       \/ /\ rowiter = << >>
          /\ pc' = "Closed"
          /\ UNCHANGED <<out, rowiter, storeFailed>>
    /\ UNCHANGED <<table, entry, req, tweets, rows_to_insert, cancelled, storeCalls,
                   ioCalls, status, result, response, cand, rec,
                   verdict, etlVars, sysVars>>

\* the generator is resumed after it yielded an error: it returns
svc_Return ==
    /\ entry = "svc"
    /\ pc = "YieldedError"
    /\ pc' = "Closed"
    /\ UNCHANGED <<table, entry, req, rowiter, tweets, rows_to_insert, out, cancelled,
                   storeCalls, ioCalls, storeFailed, status, result, response, cand, rec,
                   verdict, etlVars, sysVars>>


-----------------------------------------------------------------------------
(* Streaming in the gRPC layer: the generator StreamStockSentiment (server.py), *)
(* which searches the feed, stages the tweets, scores and emits them and then  *)
(* writes them to the store; it does not call the service layer.               *)

ReceiveStreamRpc ==
    /\ entry = "idle"
    /\ \E r \in StreamRequests : r.interval \in {INTERVAL_1H, INTERVAL_5H} /\ req' = r
    /\ entry' = "rpc"
    /\ pc' = "Validating"
    /\ UNCHANGED <<table, rowiter, tweets, rows_to_insert, out, cancelled, storeCalls,
                   ioCalls, storeFailed, status, result, response, cand, rec,
                   verdict, etlVars, sysVars>>

\* lines 79-95: the timestamps are re-parsed with a whole-seconds format, then
\* the ticker is checked for emptiness only
rpc_Validate ==
    /\ entry = "rpc"
    /\ pc = "Validating"
    /\ \/ /\ ~req.wholeSeconds
          /\ status' = "INVALID_ARGUMENT"
          /\ pc' = "Closed"
       \/ /\ req.wholeSeconds
          /\ req.ticker = EmptyStr \/ req.start_time >= req.end_time
          /\ status' = "INVALID_ARGUMENT"
          /\ pc' = "Closed"
       \/ /\ req.wholeSeconds
          /\ req.ticker # EmptyStr
          /\ req.start_time < req.end_time
          /\ status' = status
          /\ pc' = "Fetching"
    /\ UNCHANGED <<table, entry, req, rowiter, tweets, rows_to_insert, out, cancelled,
                   storeCalls, ioCalls, storeFailed, result, response, cand, rec,
                   verdict, etlVars, sysVars>>

\* lines 97-108: client.search_recent_tweets
rpc_Fetch ==
    /\ entry = "rpc"
    /\ pc = "Fetching"
    /\ ioCalls' = ioCalls + 1
    /\ \/ /\ status' = "UNKNOWN"
          /\ pc' = "Closed"
          /\ UNCHANGED tweets
       \/ /\ \E n \in 0..MaxTweets : tweets' = Feed(n)
          /\ pc' = "Uploading"
          /\ UNCHANGED status
    /\ UNCHANGED <<table, entry, req, rowiter, rows_to_insert, out, cancelled,
                   storeCalls, storeFailed, result, response, cand, rec,
                   verdict, etlVars, sysVars>>

\* lines 110-113: blob.upload_from_string; an error of the blob store is not caught
rpc_Upload ==
    /\ entry = "rpc"
    /\ pc = "Uploading"
    /\ ioCalls' = ioCalls + 1
    /\ \/ /\ status' = "UNKNOWN"
          /\ pc' = "Closed"
       \/ /\ pc' = "Emitting"
          /\ UNCHANGED status
    /\ UNCHANGED <<table, entry, req, rowiter, tweets, rows_to_insert, out, cancelled,
                   storeCalls, storeFailed, result, response, cand, rec,
                   verdict, etlVars, sysVars>>

\* lines 116-133: one tweet is scored, collected and yielded
rpc_EmitTweet ==
    /\ entry = "rpc"
    /\ pc = "Emitting"
    /\ tweets # << >>
    /\ LET tweet == Head(tweets)
       IN /\ rows_to_insert' = Append(rows_to_insert,
                 [ticker |-> req.ticker, sentiment_score |-> tweet.polarity,
                  timestamp |-> tweet.created_at])
          /\ out' = Append(out,
                 [ticker |-> req.ticker, sentiment_score |-> tweet.polarity,
                  timestamp |-> tweet.created_at, data_point_count |-> 1,
                  error |-> EmptyStr])
    /\ tweets' = Tail(tweets)
    /\ pc' = "Metric"
    /\ UNCHANGED <<table, entry, req, rowiter, cancelled, storeCalls, ioCalls,
                   storeFailed, status, result, response, cand, rec,
                   verdict, etlVars, sysVars>>

\* line 134: log_metric, run when the generator is resumed after the yield
rpc_LogMetric ==
    /\ entry = "rpc"
    /\ pc = "Metric"
    /\ ioCalls' = ioCalls + 1
    /\ \/ /\ status' = "UNKNOWN"
          /\ pc' = "Closed"
       \/ /\ pc' = "Emitting"
          /\ UNCHANGED status
    /\ UNCHANGED <<table, entry, req, rowiter, tweets, rows_to_insert, out, cancelled,
                   storeCalls, storeFailed, result, response, cand, rec,
                   verdict, etlVars, sysVars>>

\* lines 136-140: insert_rows_json once the tweets are emitted
rpc_Insert ==
    /\ entry = "rpc"
    /\ pc = "Emitting"
    /\ tweets = << >>
    /\ storeCalls' = storeCalls + 1
    /\ \/ /\ table' = table (+) SeqToBag(rows_to_insert)
          /\ pc' = "Closed"
          /\ UNCHANGED <<out, status, storeFailed>>
       \/ /\ out' = Append(out, [DefaultResponse EXCEPT !.error = InsertError])
          /\ pc' = "YieldedError"
          /\ UNCHANGED <<table, status, storeFailed>>
       \/ /\ storeFailed' = TRUE
          /\ status' = "UNKNOWN"
          /\ pc' = "Closed"
          /\ UNCHANGED <<table, out>>
    /\ UNCHANGED <<entry, req, rowiter, tweets, rows_to_insert, cancelled, ioCalls,
                   result, response, cand, rec,
                   verdict, etlVars, sysVars>>

\* the generator is resumed after it yielded the insert error: it returns
rpc_Return ==
    /\ entry = "rpc"
    /\ pc = "YieldedError"
    /\ pc' = "Closed"
    /\ UNCHANGED <<table, entry, req, rowiter, tweets, rows_to_insert, out, cancelled,
                   storeCalls, ioCalls, storeFailed, status, result, response, cand, rec,
                   verdict, etlVars, sysVars>>

-----------------------------------------------------------------------------
(* Cancellation *)

\* the points where a stream generator is suspended: before its first
\* resumption, and at a yield
Suspended ==
    \/ entry = "svc" /\ pc \in {"Validating", "Emitting", "YieldedError"}
    \/ entry = "rpc" /\ pc \in {"Validating", "Metric", "YieldedError"}

\* a defect: the cancellation is noted but the generator keeps being drained
Cancel_KeepsDraining ==
    /\ Suspended
    /\ ~cancelled
    /\ cancelled' = TRUE
    /\ UNCHANGED <<table, entry, req, pc, rowiter, tweets, rows_to_insert, out,
                   storeCalls, ioCalls, storeFailed, status, result, response, cand, rec,
                   verdict, etlVars, sysVars>>

\* the caller cancels: the suspended generator is closed; GeneratorExit is
\* raised at its yield, which no except clause of either generator catches
Cancel ==
    /\ Suspended
    /\ ~cancelled
    /\ cancelled' = TRUE
    /\ pc' = "Closed"
    /\ UNCHANGED <<table, entry, req, rowiter, tweets, rows_to_insert, out,
                   storeCalls, ioCalls, storeFailed, status, result, response, cand, rec,
                   verdict, etlVars, sysVars>>

-----------------------------------------------------------------------------
(* The API under one request *)

Next ==
    \/ ReceiveUnary
    \/ GetStockSentiment
    \/ ReceiveStreamService
    \/ svc_Validate
    \/ svc_Query
    \/ svc_NextRow
    \/ svc_Return
    \/ ReceiveStreamRpc
    \/ rpc_Validate
    \/ rpc_Fetch
    \/ rpc_Upload
    \/ rpc_EmitTweet
    \/ rpc_LogMetric
    \/ rpc_Insert
    \/ rpc_Return
    \/ Cancel

Spec == Init /\ [][Next]_vars

-----------------------------------------------------------------------------
(* Constructing SentimentScore records *)

CandidateTickers == Tickers
CandidatePolarities == {-150, -100, 0, 100, 150}
CandidateTimestamps == {-1, 0, 3600}
CandidateCounts == {-1, 0, 1}
CandidateErrors == {None, Str("upstream error")}

Candidates ==
    [ticker : CandidateTickers, sentiment_score : CandidatePolarities,
     timestamp : CandidateTimestamps, data_point_count : CandidateCounts,
     error : CandidateErrors]

InitRecord ==
    /\ table = EmptyBag
    /\ InitSysIdle
    /\ InitApiIdle
    /\ InitEtlIdle
    /\ cand \in Candidates
    /\ rec = << >>
    /\ verdict = << >>

\* SentimentScore(ticker=..., sentiment_score=..., ...)
Construct ==
    /\ rec = << >>
    /\ rec' = SentimentScore(cand.ticker, cand.sentiment_score, cand.timestamp,
                             cand.data_point_count, cand.error)
    /\ UNCHANGED <<cand, verdict, apiVars, etlVars, sysVars>>

\* SentimentScore.from_dict(data), data a dict without its falsy entries
ConstructFromDict ==
    /\ rec = << >>
    /\ \E keys \in SUBSET DOMAIN cand :
          rec' = from_dict([k \in keys |-> cand[k]])
    /\ UNCHANGED <<cand, verdict, apiVars, etlVars, sysVars>>

\* what each place that checks a ticker says of cand.ticker: the error text of
\* the record constructor (models.py 35-37), of the unary service (service.py
\* 51-53) and of the streaming service (service.py 117-120), None when they
\* accept it, and the boolean of validate_schema_compatibility (schema.py 95-97)
CheckTicker ==
    /\ verdict = << >>
    /\ verdict' =
          [record |-> SentimentScore(cand.ticker, 0, 0, 0, None).error,
           unary |-> Get(get_stock_sentiment(cand.ticker, TIMEFRAME_1H, FALSE,
                             <<[sentiment_score |-> 0, timestamp |-> 0,
                                data_point_count |-> 1]>>),
                         "error", None),
           stream |-> IF InvalidTicker(cand.ticker) THEN ServiceTickerError ELSE None,
           schema |-> validate_schema_compatibility(
                          [ticker |-> cand.ticker, sentiment_score |-> 0,
                           timestamp |-> PyInt(0), data_point_count |-> 0])]
    /\ UNCHANGED <<cand, rec, apiVars, etlVars, sysVars>>

NextRecord ==
    \/ Construct
    \/ ConstructFromDict
    \/ CheckTicker

SpecRecord == InitRecord /\ [][NextRecord]_vars


-----------------------------------------------------------------------------
(* Transform: SentimentPipeline.transform (pipeline.py) over
   SentimentAnalyzer.analyze_batch and analyze_text (sentiment.py) *)

MaxBatch == 2

Loving == Str("Loving $AAPL today!")
Terrible == Str("Terrible day")
\* a legal text on which the lexicon scorer raises
Unscorable == Str("text the scorer fails on")
Texts == {EmptyStr, Loving, Terrible, Unscorable}

\* TextBlob(text).sentiment raises
scorer_raises(text) == text = Unscorable

\* TextBlob(text).sentiment.polarity, in hundredths
polarity(text) == IF text = Loving THEN 50 ELSE IF text = Terrible THEN -100 ELSE 0

Iso60 == <<"1970-01-01T", "00:01:00", "Z">>
InvalidIso == <<"invalid_timestamp">>

\* timestamp.replace("Z", "+00:00")
replace_Z(s) == [i \in DOMAIN s |-> IF s[i] = "Z" THEN "+00:00" ELSE s[i]]

ClockSeconds(clock) ==
    CASE clock = "00:00:00" -> 0
      [] clock = "00:01:00" -> 60
      [] clock = "01:00:00" -> 3600
      [] OTHER -> -1

\* int(datetime.fromisoformat(s).timestamp()): the epoch seconds of an ISO-8601
\* text with an offset, ValueError for any other text
fromisoformat(s) ==
    IF Len(s) = 3 /\ s[1] = "1970-01-01T" /\ ClockSeconds(s[2]) >= 0 /\ s[3] = "+00:00"
    THEN [ok |-> TRUE, epoch |-> ClockSeconds(s[2])]
    ELSE [ok |-> FALSE, epoch |-> 0]

\* the time of a raw record: the fetcher writes it under created_at
\* (fetcher.py 101-107), analyze_batch reads it under timestamp
TimeFields ==
    {[created_at |-> PyStr(Iso60)], [created_at |-> PyStr(InvalidIso)],
     [timestamp |-> PyInt(60)], [timestamp |-> PyStr(Iso60)]}

RawTickers == {EmptyStr, AAPL, GOOGLE}

RawRecords ==
    { [text |-> x, ticker |-> t] @@ tf : x \in Texts, t \in RawTickers, tf \in TimeFields }

Batches(Universe, maxLen) == UNION { [1..n -> Universe] : n \in 0..maxLen }

\* a defect: a failure of the scorer is answered with the neutral polarity
analyze_text_Degrades(text, ticker, timestamp) ==
    IF text = EmptyStr THEN << >>
    ELSE IF ticker = EmptyStr THEN << >>
    ELSE LET score == SentimentScore(ticker,
                                     IF scorer_raises(text) THEN 0 ELSE polarity(text),
                                     timestamp, 1, None)
         IN IF is_valid(score) THEN score ELSE << >>

\* analyze_text: None (here << >>) or a valid SentimentScore; an exception of
\* the scorer is caught by except Exception, which returns None
analyze_text(text, ticker, timestamp) ==
    IF text = EmptyStr THEN << >>
    ELSE IF ticker = EmptyStr THEN << >>
    ELSE IF scorer_raises(text) THEN << >>
    ELSE LET score == SentimentScore(ticker, polarity(text), timestamp, 1, None)
         IN IF is_valid(score) THEN score ELSE << >>

\* one turn of the loop of analyze_batch: the step taken ("raise", "continue"
\* or "append") and the score to append. sentiment.py does not import datetime,
\* so evaluating datetime.fromisoformat for a str timestamp raises NameError,
\* which the except (ValueError, TypeError) clause does not catch.
analyze_item(item) ==
    LET text == Get(item, "text", EmptyStr)
        ticker == Get(item, "ticker", EmptyStr)
        timestamp == Get(item, "timestamp", PyNone)
        score == analyze_text(text, ticker, timestamp.n)
    IN IF timestamp.type = "str" THEN [step |-> "raise", score |-> << >>]
       ELSE IF timestamp.type # "int" THEN [step |-> "continue", score |-> << >>]
       ELSE IF DOMAIN score = {} THEN [step |-> "continue", score |-> << >>]
       ELSE [step |-> "append", score |-> score]

RECURSIVE analyze_batch(_)
analyze_batch(data) ==
    IF data = << >> THEN [raised |-> FALSE, results |-> << >>]
    ELSE LET first == analyze_item(Head(data))
             rest == analyze_batch(Tail(data))
         IN IF first.step = "raise" \/ rest.raised
            THEN [raised |-> TRUE, results |-> << >>]
            ELSE IF first.step = "continue" THEN rest
            ELSE [raised |-> FALSE, results |-> <<first.score>> \o rest.results]

\* a variant: the timestamp is left as epoch seconds, which the schema check
\* accepts, so that transformed rows reach the store
TransformedDict_EpochTimestamp(score) ==
    [ticker |-> score.ticker, sentiment_score |-> score.sentiment_score,
     timestamp |-> PyInt(score.timestamp),
     data_point_count |-> score.data_point_count, source |-> Str("X")]

TransformedDict(score) ==
    [ticker |-> score.ticker, sentiment_score |-> score.sentiment_score,
     timestamp |-> PyDatetime(score.timestamp),
     data_point_count |-> score.data_point_count, source |-> Str("X")]

\* transform up to its first return statement; the loop after it is unreachable
transform(data) ==
    LET scores == analyze_batch(data)
    IN [raised |-> scores.raised,
        results |-> [i \in DOMAIN scores.results |-> TransformedDict(scores.results[i])]]

InitTransform ==
    /\ table = EmptyBag
    /\ InitSysIdle
    /\ InitApiIdle
    /\ InitRecordIdle
    /\ InitLoadIdle
    /\ raw_data \in Batches(RawRecords, MaxBatch)
    /\ transformed = << >>
    /\ etlPc = "Ready"

Transform ==
    /\ etlPc = "Ready"
    /\ LET answer == transform(raw_data)
       IN /\ transformed' = answer.results
          /\ etlPc' = IF answer.raised THEN "Raised" ELSE "Transformed"
    /\ UNCHANGED <<apiVars, recVars, raw_data, load_data, loadResult, insertCalls,
                   loadLog, storeRejected, loggedErrors, sysVars>>

NextTransform == Transform

SpecTransform == InitTransform /\ [][NextTransform]_vars

-----------------------------------------------------------------------------
(* Load: SentimentPipeline.load_to_bigquery (pipeline.py) and
   BigQueryClient.insert_data (bigquery.py), both run on the same records *)

MaxLoad == 2

GoodRow ==
    [ticker |-> AAPL, sentiment_score |-> 50, timestamp |-> PyInt(60),
     data_point_count |-> 1, source |-> Str("X")]

\* rows handed to load: two well-formed ones, the row transform produces (its
\* timestamp is a datetime), and rows breaking one schema rule each
LoadRows ==
    {GoodRow,
     [GoodRow EXCEPT !.ticker = TSLA, !.timestamp = PyInt(3600)],
     TransformedDict(SentimentScore(AAPL, 50, 60, 1, None)),
     [GoodRow EXCEPT !.ticker = GOOGLE],
     [GoodRow EXCEPT !.sentiment_score = 150],
     [k \in {"ticker", "sentiment_score", "timestamp"} |-> GoodRow[k]]}

\* valid_data = [row for row in data if validate_schema_compatibility(row)]
valid_data(data) == SelectSeq(data, validate_schema_compatibility)

\* what the store may answer to insert_rows_json(table, rows): it raises
\* GoogleAPIError, or it returns the errors of the rows it rejected (by index),
\* having stored either the other rows or, for a request with errors, none
StoreAnswers(rows) ==
    {[raised |-> TRUE, errors |-> {}, stored |-> {}]}
    \cup {[raised |-> FALSE, errors |-> {}, stored |-> DOMAIN rows]}
    \cup UNION { {[raised |-> FALSE, errors |-> E, stored |-> {}],
                   [raised |-> FALSE, errors |-> E, stored |-> DOMAIN rows \ E]} :
                  E \in (SUBSET DOMAIN rows) \ {{}} }

NoInsert(log) ==
    [result |-> "False", calls |-> 0, log |-> log, rejected |-> {}, logged |-> {},
     stored |-> {}]

\* the try block around insert_rows_json, the same in both implementations
InsertOnce(rows, answer, log) ==
    [result |-> IF ~answer.raised /\ answer.errors = {} THEN "True" ELSE "False",
     calls |-> 1,
     log |-> log \o (IF ~answer.raised /\ answer.errors = {} THEN <<"info">>
                     ELSE <<"error">>),
     rejected |-> answer.errors, logged |-> answer.errors, stored |-> answer.stored]

FilterLog(data) == IF Len(valid_data(data)) < Len(data) THEN <<"warning">> ELSE << >>

\* a defect: empty input is handed to the store like any other
load_to_bigquery_NoEmptyGuard(data, answer) ==
    InsertOnce(valid_data(data), answer, FilterLog(data))

\* a defect: the store's errors are not looked at
load_to_bigquery_IgnoresErrors(data, answer) ==
    IF data = << >> THEN NoInsert(<<"warning">>)
    ELSE [InsertOnce(valid_data(data), answer, FilterLog(data))
             EXCEPT !.result = IF answer.raised THEN "False" ELSE "True",
                    !.logged = {}]

\* a defect: a raising insert is tried a second time
load_to_bigquery_Retries(data, answer) ==
    IF data = << >> THEN NoInsert(<<"warning">>)
    ELSE [InsertOnce(valid_data(data), answer, FilterLog(data))
             EXCEPT !.calls = IF answer.raised THEN 2 ELSE 1]

\* SentimentPipeline.load_to_bigquery: no test of valid_data being empty
load_to_bigquery(data, answer) ==
    IF data = << >> THEN NoInsert(<<"warning">>)
    ELSE InsertOnce(valid_data(data), answer, FilterLog(data))

\* BigQueryClient.insert_data
insert_data(data, answer) ==
    IF data = << >> THEN NoInsert(<<"warning">>)
    ELSE IF valid_data(data) = << >> THEN NoInsert(FilterLog(data) \o <<"warning">>)
    ELSE InsertOnce(valid_data(data), answer, FilterLog(data))

RECURSIVE StoredRows(_, _)
StoredRows(rows, stored) ==
    IF rows = << >> THEN EmptyBag
    ELSE (IF Len(rows) \in stored THEN SetToBag({rows[Len(rows)]}) ELSE EmptyBag)
         (+) StoredRows(SubSeq(rows, 1, Len(rows) - 1), stored)

InitLoad ==
    /\ table = EmptyBag
    /\ InitSysIdle
    /\ InitApiIdle
    /\ InitRecordIdle
    /\ raw_data = << >>
    /\ transformed = << >>
    /\ etlPc = "Loading"
    /\ load_data \in Batches(LoadRows, MaxLoad)
    /\ loadResult = [impl \in LoadImplementations |-> "pending"]
    /\ insertCalls = [impl \in LoadImplementations |-> 0]
    /\ loadLog = [impl \in LoadImplementations |-> << >>]
    /\ storeRejected = [impl \in LoadImplementations |-> {}]
    /\ loggedErrors = [impl \in LoadImplementations |-> {}]

Loaded(impl, outcome) ==
    /\ loadResult[impl] = "pending"
    /\ loadResult' = [loadResult EXCEPT ![impl] = outcome.result]
    /\ insertCalls' = [insertCalls EXCEPT ![impl] = @ + outcome.calls]
    /\ loadLog' = [loadLog EXCEPT ![impl] = outcome.log]
    /\ storeRejected' = [storeRejected EXCEPT ![impl] = outcome.rejected]
    /\ loggedErrors' = [loggedErrors EXCEPT ![impl] = outcome.logged]
    /\ table' = table (+) StoredRows(valid_data(load_data), outcome.stored)
    /\ UNCHANGED <<entry, req, pc, rowiter, tweets, rows_to_insert, out, cancelled,
                   storeCalls, ioCalls, storeFailed, status, result, response,
                   recVars, raw_data, transformed, etlPc, load_data, sysVars>>

LoadToBigQuery ==
    /\ etlPc = "Loading"
    /\ \E answer \in StoreAnswers(valid_data(load_data)) :
          Loaded("SentimentPipeline", load_to_bigquery(load_data, answer))

InsertData ==
    /\ etlPc = "Loading"
    /\ \E answer \in StoreAnswers(valid_data(load_data)) :
          Loaded("BigQueryClient", insert_data(load_data, answer))

NextLoad ==
    \/ LoadToBigQuery
    \/ InsertData

SpecLoad == InitLoad /\ [][NextLoad]_vars

-----------------------------------------------------------------------------
(* Table creation: create_table_if_not_exists (data/schema.py), called by
   SentimentPipeline.__init__ and BigQueryClient.__init__, each with its own
   client; the two components may start at the same time *)

MaxCalls == 2

InitCreate ==
    /\ table = EmptyBag
    /\ InitApiIdle
    /\ InitRecordIdle
    /\ InitEtlIdle
    /\ InitPipeIdle
    /\ tableExists \in BOOLEAN
    /\ ctPc = [c \in Components |-> "Idle"]
    /\ ctCalls = [c \in Components |-> 0]
    /\ ctError = [c \in Components |-> "none"]
    /\ createCalls = 0
    /\ createdWhilePresent = 0

ctFrame ==
    UNCHANGED <<table, apiVars, recVars, etlVars, pipeVars>>

\* client.get_table(table): the table is there, or NotFound is raised, or the
\* store fails, which is logged and raised again
ct_GetTable(c) ==
    /\ ctPc[c] = "Idle"
    /\ ctCalls[c] < MaxCalls
    /\ ctCalls' = [ctCalls EXCEPT ![c] = @ + 1]
    /\ \/ /\ ctPc' = [ctPc EXCEPT ![c] = IF tableExists THEN "Returned" ELSE "NotFound"]
          /\ ctError' = [ctError EXCEPT ![c] = "none"]
       \/ /\ ctPc' = [ctPc EXCEPT ![c] = "Raised"]
          /\ ctError' = [ctError EXCEPT ![c] = "GoogleAPIError"]
    /\ UNCHANGED <<tableExists, createCalls, createdWhilePresent>>
    /\ ctFrame

\* except NotFound: client.create_table(table), without exists_ok: the store
\* answers Conflict when the table is there by now; an exception raised inside
\* the handler is not caught by the later except clause
ct_CreateTable(c) ==
    /\ ctPc[c] = "NotFound"
    /\ createCalls' = createCalls + 1
    /\ \/ /\ tableExists
          /\ createdWhilePresent' = createdWhilePresent + 1
          /\ ctPc' = [ctPc EXCEPT ![c] = "Raised"]
          /\ ctError' = [ctError EXCEPT ![c] = "Conflict"]
          /\ UNCHANGED tableExists
       \/ /\ ~tableExists
          /\ tableExists' = TRUE
          /\ ctPc' = [ctPc EXCEPT ![c] = "Returned"]
          /\ UNCHANGED <<ctError, createdWhilePresent>>
       \/ /\ ~tableExists
          /\ ctPc' = [ctPc EXCEPT ![c] = "Raised"]
          /\ ctError' = [ctError EXCEPT ![c] = "GoogleAPIError"]
          /\ UNCHANGED <<tableExists, createdWhilePresent>>
    /\ UNCHANGED ctCalls
    /\ ctFrame

\* the component is constructed again
ct_CallAgain(c) ==
    /\ ctPc[c] \in {"Returned", "Raised"}
    /\ ctCalls[c] < MaxCalls
    /\ ctPc' = [ctPc EXCEPT ![c] = "Idle"]
    /\ UNCHANGED <<tableExists, ctCalls, ctError, createCalls, createdWhilePresent>>
    /\ ctFrame

NextCreate ==
    \/ \E c \in Components : ct_GetTable(c)
    \/ \E c \in Components : ct_CreateTable(c)
    \/ \E c \in Components : ct_CallAgain(c)

SpecCreate == InitCreate /\ [][NextCreate]_vars

-----------------------------------------------------------------------------
(* The two loops over the bucket: XDataFetcher.run (ingestion/src/fetcher.py)
   stages blobs, SentimentPipeline.run (processing/src/pipeline.py) extracts,
   transforms and loads the latest one *)

MaxClock == 2

requestVars == <<entry, req, pc, rowiter, tweets, rows_to_insert, out, cancelled,
                 storeCalls, ioCalls, storeFailed, status, result, response>>
loadVars == <<etlPc, load_data, loadResult, insertCalls, loadLog, storeRejected,
              loggedErrors>>

IngestTickers == <<AAPL, TSLA>>

\* tweet.created_at.isoformat() of a timezone-aware datetime
IsoOffset60 == <<"1970-01-01T", "00:01:00", "+00:00">>

\* tweets.data of a search that finds something
FeedTweets == <<[text |-> Loving, created_at |-> IsoOffset60]>>

\* what the feed answers to one search_recent_tweets: it raises
\* TweepyException, it has no data, or it has data
FeedAnswers == {"raise", "none", "data"}

\* _extract_ticker: the first $ followed by 1 to 5 capitals, else ""
extract_ticker(text) == IF text = Loving THEN AAPL ELSE EmptyStr

\* fetch_tweets: it searches twice, the second time inside the latency timer;
\* a second search without data leaves tweets.data None, and iterating it
\* raises TypeError, which the except TweepyException clause does not catch
fetch_tweets(first, second) ==
    IF first \in {"raise", "none"} THEN [raised |-> FALSE, results |-> << >>]
    ELSE IF second = "raise" THEN [raised |-> FALSE, results |-> << >>]
    ELSE IF second = "none" THEN [raised |-> TRUE, results |-> << >>]
    ELSE [raised |-> FALSE,
          results |-> [i \in DOMAIN FeedTweets |->
                          [text |-> FeedTweets[i].text,
                           ticker |-> extract_ticker(FeedTweets[i].text),
                           created_at |-> PyStr(FeedTweets[i].created_at)]]]

\* blob_name = f"{prefix}/{timestamp}.json", timestamp to the second: the name
\* of a blob is the second it was uploaded in
blob_name(second) == second

\* upload_to_gcs: the bucket after blob.upload_from_string under the name of
\* the current second, which replaces a blob of that name
upload_to_gcs(blobs, data, second, by) ==
    { b \in blobs : b.name # blob_name(second) }
    \cup {[name |-> blob_name(second), by |-> by, valid |-> TRUE, data |-> data]}

BlobId(b) == [name |-> b.name, by |-> b.by]

\* blobs found in the bucket at the start: none, one that is not JSON, or one
\* whose records carry an integer under "timestamp"
InitialBuckets ==
    {{},
     {[name |-> 0, by |-> 0, valid |-> FALSE, data |-> << >>]},
     {[name |-> 0, by |-> 0, valid |-> TRUE,
       data |-> <<[text |-> Loving, ticker |-> AAPL, timestamp |-> PyInt(60)]>>]}}

NoExtract(fault, raised) ==
    [raised |-> raised, data |-> << >>, blob |-> NoBlob, fault |-> fault]

\* max(blobs, key=lambda b: b.name)
latest_blob(blobs) == CHOOSE b \in blobs : \A c \in blobs : c.name <= b.name

\* a defect: the decoding error is not caught
extract_from_gcs_Uncaught(blobs, storeRaises) ==
    IF storeRaises THEN NoExtract("api_error", FALSE)
    ELSE IF blobs = {} THEN NoExtract("no_files", FALSE)
    ELSE IF ~latest_blob(blobs).valid
         THEN [NoExtract("bad_json", TRUE) EXCEPT !.blob = BlobId(latest_blob(blobs))]
         ELSE [raised |-> FALSE, data |-> latest_blob(blobs).data,
               blob |-> BlobId(latest_blob(blobs)), fault |-> "none"]

\* a defect: the blob with the least name is taken
extract_from_gcs_Oldest(blobs, storeRaises) ==
    LET oldest == CHOOSE b \in blobs : \A c \in blobs : b.name <= c.name
    IN IF storeRaises THEN NoExtract("api_error", FALSE)
       ELSE IF blobs = {} THEN NoExtract("no_files", FALSE)
       ELSE IF ~oldest.valid
            THEN [NoExtract("bad_json", FALSE) EXCEPT !.blob = BlobId(oldest)]
            ELSE [raised |-> FALSE, data |-> oldest.data,
                  blob |-> BlobId(oldest), fault |-> "none"]

\* extract_from_gcs: the records of the latest blob; [] when there is no blob,
\* when the blob store raises GoogleAPIError and when the blob is not JSON
extract_from_gcs(blobs, storeRaises) ==
    IF storeRaises THEN NoExtract("api_error", FALSE)
    ELSE IF blobs = {} THEN NoExtract("no_files", FALSE)
    ELSE IF ~latest_blob(blobs).valid
         THEN [NoExtract("bad_json", FALSE) EXCEPT !.blob = BlobId(latest_blob(blobs))]
         ELSE [raised |-> FALSE, data |-> latest_blob(blobs).data,
               blob |-> BlobId(latest_blob(blobs)), fault |-> "none"]

InitPipeline ==
    /\ table = EmptyBag
    /\ InitApiIdle
    /\ InitRecordIdle
    /\ InitEtlIdle
    /\ InitTableIdle
    /\ now = 1
    /\ bucket \in InitialBuckets
    /\ reliable \in BOOLEAN
    /\ ingPc = "Running"
    /\ ingIdx = 1
    /\ feedSaid = <<"none", "none">>
    /\ fetched = << >>
    /\ staged = {}
    /\ overwritten = {}
    /\ runBlob = NoBlob
    /\ prevBlob = NoBlob
    /\ extracted = {}
    /\ runError = "none"
    /\ extractFault = "none"

\* one turn of "for ticker in tickers": fetch_tweets, then upload_to_gcs when
\* it returned tweets; an exception of fetch_tweets ends run
ing_Ticker ==
    /\ ingPc = "Running"
    /\ ingIdx <= Len(IngestTickers)
    /\ \E first \in FeedAnswers, second \in FeedAnswers,
          uploadRaises \in (IF reliable THEN {FALSE} ELSE BOOLEAN) :
          LET tweeted == fetch_tweets(first, second)
              uploads == tweeted.results # << >> /\ ~uploadRaises
          IN /\ first # "data" => second = "none"
             /\ feedSaid' = <<first, second>>
             /\ fetched' = tweeted.results
             /\ ingPc' = IF tweeted.raised THEN "Crashed" ELSE "Running"
             /\ ingIdx' = IF tweeted.raised THEN ingIdx ELSE ingIdx + 1
             /\ bucket' = IF uploads
                          THEN upload_to_gcs(bucket, tweeted.results, now, ingIdx)
                          ELSE bucket
             /\ staged' = IF uploads
                          THEN staged \cup {[name |-> blob_name(now), by |-> ingIdx]}
                          ELSE staged
             /\ overwritten' =
                   IF uploads
                   THEN overwritten
                        \cup { BlobId(b) : b \in { c \in bucket : c.name = blob_name(now) } }
                   ELSE overwritten
    /\ UNCHANGED <<table, requestVars, recVars, raw_data, transformed, loadVars, tblVars,
                   now, reliable, runBlob, prevBlob, extracted, runError, extractFault>>

\* time.sleep(interval) after the last ticker
ing_Sleep ==
    /\ ingPc = "Running"
    /\ ingIdx > Len(IngestTickers)
    /\ now < MaxClock
    /\ now' = now + 1
    /\ ingIdx' = 1
    /\ UNCHANGED <<table, requestVars, recVars, raw_data, transformed, loadVars, tblVars,
                   bucket, reliable, ingPc, feedSaid, fetched, staged, overwritten,
                   runBlob, prevBlob, extracted, runError, extractFault>>

\* a second passes
Tick ==
    /\ now < MaxClock
    /\ now' = now + 1
    /\ UNCHANGED <<table, requestVars, recVars, raw_data, transformed, loadVars, tblVars,
                   bucket, reliable, ingPc, ingIdx, feedSaid, fetched, staged,
                   overwritten, runBlob, prevBlob, extracted, runError, extractFault>>

\* one turn of "while True" of SentimentPipeline.run: extract, transform and
\* load inside try / except Exception, which logs and goes on
run_Iteration ==
    /\ \E storeRaises \in (IF reliable THEN {FALSE} ELSE BOOLEAN) :
          LET got == extract_from_gcs(bucket, storeRaises)
              made == transform(got.data)
          IN /\ raw_data' = got.data
             /\ extractFault' = got.fault
             /\ prevBlob' = runBlob
             /\ runBlob' = got.blob
             /\ extracted' = IF got.blob = NoBlob THEN extracted
                             ELSE extracted \cup {got.blob}
             /\ runError' = IF got.raised THEN "extract"
                            ELSE IF made.raised THEN "transform" ELSE "none"
             /\ transformed' = IF got.raised THEN << >> ELSE made.results
             /\ IF got.raised \/ made.raised
                THEN table' = table
                ELSE \E answer \in StoreAnswers(valid_data(made.results)) :
                        table' = table (+) StoredRows(valid_data(made.results),
                                     load_to_bigquery(made.results, answer).stored)
    /\ UNCHANGED <<requestVars, recVars, loadVars, tblVars, now, bucket, reliable,
                   ingPc, ingIdx, feedSaid, fetched, staged, overwritten>>

NextPipeline ==
    \/ ing_Ticker
    \/ ing_Sleep
    \/ Tick
    \/ run_Iteration

SpecPipeline == InitPipeline /\ [][NextPipeline]_vars

\* both loops scheduled fairly, over a blob store that never fails and a bucket
\* that holds nothing but what the ingestion loop stages
InitPipelineReliable == InitPipeline /\ reliable /\ bucket = {}

SpecPipelineFair ==
    /\ InitPipelineReliable
    /\ [][NextPipeline]_vars
    /\ WF_vars(ing_Ticker)
    /\ WF_vars(ing_Sleep)
    /\ WF_vars(run_Iteration)

-----------------------------------------------------------------------------
(* Properties of the streams and of the unary call *)

ErrorCount(msgs) == Cardinality({ i \in 1..Len(msgs) : IsError(msgs[i]) })

BucketCount(msgs) == Cardinality({ i \in 1..Len(msgs) : IsBucket(msgs[i]) })

Streaming == entry \in {"svc", "rpc"}

\* the stream ended by itself, not by a cancellation
Finished == pc = "Closed" /\ ~cancelled

\* the request violates a request-level constraint of the specification
FailsValidation == InvalidTicker(req.ticker) \/ req.start_time >= req.end_time

\* C1: on every stream (service generator and gRPC handler) a message carrying
\* an error is the last message: no bucket and no second error follows it.
C1_ErrorIsLast ==
    Streaming => \A i \in 1..Len(out) : IsError(out[i]) => i = Len(out)

C1_Witness ==
    /\ entry = "svc"
    /\ pc = "Closed"
    /\ Len(out) >= 2
    /\ IsBucket(out[1])
    /\ IsError(out[Len(out)])

\* C2: a service stream request with a well-formed ticker, start < end and an
\* unsupported interval token emits exactly one message, an error, and closes
\* without querying the store.
C2_UnsupportedIntervalRejected ==
    ( /\ entry = "svc"
      /\ ~FailsValidation
      /\ req.interval \notin SupportedIntervals
      /\ Finished )
    => /\ Len(out) = 1
       /\ IsError(out[1])
       /\ storeCalls = 0

\* C3: a stream request that fails validation (malformed ticker, or
\* start >= end) emits exactly one message, an error, and then is closed.
C3_InvalidRequestOneError ==
    ( /\ Streaming
      /\ req.wholeSeconds
      /\ FailsValidation
      /\ Finished )
    => /\ Len(out) = 1
       /\ IsError(out[1])

\* C4: a request that fails request-level validation (malformed ticker on the
\* unary or a streaming entry point, start >= end on a time-ranged query) is
\* answered with no store invocation and no other I/O.
C4_InvalidRequestNoIO ==
    ( \/ entry = "unary" /\ InvalidTicker(req.ticker)
      \/ Streaming /\ req.wholeSeconds /\ FailsValidation )
    => /\ storeCalls = 0
       /\ ioCalls = 0

\* C5: when the store query of a valid service stream request fails, the
\* stream carries exactly one error message, it is the last message, and the
\* generator has nothing left to do but return.
C5_StoreFailureOneError ==
    (entry = "svc" /\ storeFailed)
    => /\ ErrorCount(out) = 1
       /\ IsError(out[Len(out)])
       /\ pc \in {"YieldedError", "Closed"}

C5_Witness ==
    /\ entry = "svc"
    /\ storeFailed
    /\ Finished
    /\ BucketCount(out) >= 1

\* C6: a failed store query is never partially surfaced: the caller receives
\* the single wrapped error and no bucket message of the failed query.
C6_NoPartialResult ==
    (entry = "svc" /\ storeFailed)
    => /\ ErrorCount(out) = 1
       /\ BucketCount(out) = 0

\* C7: when the store returns zero rows for a valid request, the unary call
\* answers with the "No data available" error and the service stream emits no
\* message at all and closes without an error.
C7_NoDataAsymmetry ==
    /\ ( /\ entry = "unary"
         /\ pc = "Closed"
         /\ storeCalls = 1
         /\ ~storeFailed
         /\ rowiter = << >> )
       => /\ "error" \in DOMAIN result
          /\ result.error[1] = "No data available for "
          /\ response.error = result.error
    /\ ( /\ entry = "svc"
         /\ Finished
         /\ storeCalls = 1
         /\ ~storeFailed
         /\ Matching(table, req.ticker, req.start_time, req.end_time) = {} )
       => out = << >>

C7_Witness ==
    /\ entry = "svc"
    /\ Finished
    /\ storeCalls = 1
    /\ ~storeFailed
    /\ req.ticker = AAPL
    /\ table # EmptyBag
    /\ Matching(table, req.ticker, req.start_time, req.end_time) = {}

\* C8: the bucket messages of a service stream are in ascending order of
\* bucket start: of two consecutive bucket messages the earlier one's
\* timestamp is not greater than the later one's.
C8_BucketsAscending ==
    entry = "svc"
    => \A i \in 1..(Len(out) - 1) :
          (IsBucket(out[i]) /\ IsBucket(out[i + 1]))
          => out[i].timestamp <= out[i + 1].timestamp

C8_Witness ==
    /\ entry = "svc"
    /\ Finished
    /\ Len(out) >= 3
    /\ \A i \in 1..Len(out) : IsBucket(out[i])

\* C9: once the caller has cancelled a stream, no message (bucket or error)
\* is emitted on it, however many buckets remain unsent.
C9_NothingAfterCancel ==
    [][(cancelled \/ cancelled') => out' = out]_vars

C9_Witness ==
    /\ entry = "svc"
    /\ cancelled
    /\ BucketCount(out) >= 1
    /\ rowiter # << >>

-----------------------------------------------------------------------------
(* Properties of the SentimentScore constructor *)

Built == DOMAIN rec # {}

\* the record holds the candidate's four data fields
BuiltFromCandidate ==
    /\ Built
    /\ rec.ticker = cand.ticker
    /\ rec.sentiment_score = cand.sentiment_score
    /\ rec.timestamp = cand.timestamp
    /\ rec.data_point_count = cand.data_point_count

\* the message of the first violated constraint in the order ticker,
\* polarity, observed_at, sample_count; None when none is violated
FirstViolation(c) ==
    IF InvalidTicker(c.ticker) THEN ModelTickerError
    ELSE IF ~(-100 <= c.sentiment_score /\ c.sentiment_score <= 100) THEN PolarityError
    ELSE IF c.timestamp < 0 THEN TimestampError
    ELSE IF c.data_point_count < 0 THEN CountError
    ELSE None

\* C10: constructing a record from candidate fields sets error to the message
\* of the first violated constraint in the order ticker, polarity,
\* observed_at, sample_count, and to null when no constraint is violated.
C10_FirstViolationWins ==
    (BuiltFromCandidate /\ cand.error = None) => rec.error = FirstViolation(cand)

\* the four field constraints of a SentimentRecord, of the record's own fields
FieldConstraintsHold(score) ==
    /\ ~InvalidTicker(score.ticker)
    /\ -100 <= score.sentiment_score /\ score.sentiment_score <= 100
    /\ score.timestamp >= 0
    /\ score.data_point_count >= 0

\* C11: every accepted SentimentRecord (error = None) has its polarity in
\* [-1, 1]; a record built with a polarity outside that range has an error.
C11_AcceptedPolarityInRange ==
    Built => \/ rec.error # None
             \/ (-100 <= rec.sentiment_score /\ rec.sentiment_score <= 100)

Checked == DOMAIN verdict # {}

\* C12: a ticker is accepted only when it is alphanumeric of length 1..5, and
\* every place that checks tickers rejects every other ticker, the three that
\* answer with a text using the same text.
C12_OneTickerRule ==
    Checked =>
        /\ (verdict.record = None) <=> ~InvalidTicker(cand.ticker)
        /\ (verdict.unary = None) <=> ~InvalidTicker(cand.ticker)
        /\ (verdict.stream = None) <=> ~InvalidTicker(cand.ticker)
        /\ verdict.schema <=> ~InvalidTicker(cand.ticker)
        /\ verdict.record = verdict.unary
        /\ verdict.unary = verdict.stream

\* C13: however a SentimentRecord is constructed, its error is None exactly
\* when all four field constraints hold of its fields.
C13_ErrorIffConstraintFails ==
    Built => (is_valid(rec) <=> FieldConstraintsHold(rec))


TransformReturned == etlPc \in {"Transformed", "Raised"}

\* a raw record as the fetcher writes it that passes ticker resolution,
\* timestamp parsing and validation
GoodRaw(r) ==
    /\ "created_at" \in DOMAIN r
    /\ r.created_at.type = "str"
    /\ fromisoformat(replace_Z(r.created_at.s)).ok
    /\ r.text # EmptyStr
    /\ ~InvalidTicker(r.ticker)

ObservedAt(r) == fromisoformat(replace_Z(r.created_at.s)).epoch

\* C14: transform of a batch of one raw record with non-empty text, a valid
\* ticker and a parsable ISO created_at returns exactly one record, with that
\* ticker, the epoch seconds of created_at and a sample count of 1.
C14_OneGoodRecordOneOutput ==
    (TransformReturned /\ Len(raw_data) = 1 /\ GoodRaw(raw_data[1])) =>
        /\ etlPc = "Transformed"
        /\ Len(transformed) = 1
        /\ transformed[1].ticker = raw_data[1].ticker
        /\ transformed[1].timestamp.n = ObservedAt(raw_data[1])
        /\ transformed[1].data_point_count = 1

RECURSIVE IsSubsequence(_, _)
IsSubsequence(a, b) ==
    IF a = << >> THEN TRUE
    ELSE IF b = << >> THEN FALSE
    ELSE IF Head(a) = Head(b) THEN IsSubsequence(Tail(a), Tail(b))
    ELSE IsSubsequence(a, Tail(b))

GoodKeys(data) ==
    LET good == SelectSeq(data, GoodRaw)
    IN [i \in DOMAIN good |-> <<good[i].ticker, ObservedAt(good[i])>>]

OutputKeys(data) == [i \in DOMAIN data |-> <<data[i].ticker, data[i].timestamp.n>>]

\* C15: transform isolates errors per record: it returns normally, and the
\* records of the batch that pass ticker resolution, timestamp parsing and
\* validation appear in its output in input order, whatever the others are.
C15_GoodRecordsSurvive ==
    TransformReturned =>
        /\ etlPc = "Transformed"
        /\ IsSubsequence(GoodKeys(raw_data), OutputKeys(transformed))


Returned(impl) == loadResult[impl] # "pending"

\* C16: load of an empty sequence reports that nothing was inserted (False,
\* with a warning and no error) and issues no insert call to the store.
C16_EmptyLoadNoInsert ==
    \A impl \in LoadImplementations :
        (Returned(impl) /\ load_data = << >>) =>
            /\ loadResult[impl] = "False"
            /\ insertCalls[impl] = 0
            /\ loadLog[impl] = <<"warning">>
            /\ table = EmptyBag

C16_Witness ==
    /\ load_data = << >>
    /\ \A impl \in LoadImplementations : Returned(impl)

AllRejected == load_data # << >> /\ valid_data(load_data) = << >>

\* C17: load of a non-empty sequence that the schema pre-filter rejects entirely
\* is not an error: both implementations report the same outcome, nothing
\* inserted, with a warning and without an error.
C17_AllRejectedSameOutcome ==
    (AllRejected /\ \A impl \in LoadImplementations : Returned(impl)) =>
        /\ loadResult["SentimentPipeline"] = loadResult["BigQueryClient"]
        /\ \A impl \in LoadImplementations :
              /\ "error" \notin { loadLog[impl][i] : i \in DOMAIN loadLog[impl] }
              /\ "warning" \in { loadLog[impl][i] : i \in DOMAIN loadLog[impl] }
        /\ table = EmptyBag

\* the rows a returned value identifies: load returns a bool, which names none
RowsIdentifiedBy(returned) == {}

C19_AtMostOneInsert ==
    \A impl \in LoadImplementations : insertCalls[impl] <= 1

C19_Witness ==
    \A impl \in LoadImplementations :
        /\ loadResult[impl] = "False"
        /\ insertCalls[impl] = 1
        /\ storeRejected[impl] = {}


SupportedTimeframes == {TIMEFRAME_1H, TIMEFRAME_1D, TIMEFRAME_1W}

\* a unary call with a well-formed ticker and a timeframe token outside the
\* lookup table has been answered
UnknownTimeframeAnswered ==
    /\ entry = "unary"
    /\ pc = "Closed"
    /\ ~InvalidTicker(req.ticker)
    /\ req.timeframe \notin SupportedTimeframes \cup {TIMEFRAME_UNSET}

ScorerFailed ==
    /\ TransformReturned
    /\ Len(raw_data) = 1
    /\ scorer_raises(raw_data[1].text)
    /\ ~InvalidTicker(raw_data[1].ticker)
    /\ "timestamp" \in DOMAIN raw_data[1]
    /\ raw_data[1].timestamp.type = "int"

\* C21 as stated: when the scorer fails on a legal text the failure is not
\* propagated and the record is kept, with polarity 0.0.
C21_ScorerFailureDegrades ==
    ScorerFailed =>
        /\ etlPc = "Transformed"
        /\ Len(transformed) = 1
        /\ transformed[1].sentiment_score = 0

\* C21 amended: when the scorer fails on a legal text the failure is not
\* propagated, and the record is dropped: transform returns without it.
C21_ScorerFailureDrops ==
    ScorerFailed =>
        /\ etlPc = "Transformed"
        /\ transformed = << >>

C21_Witness == ScorerFailed /\ etlPc = "Transformed"


\* C22: table creation is idempotent: however often and however interleaved
\* the components call create_table_if_not_exists, no call fails because the
\* table already exists, and create_table is issued only while it is absent.
C22_CreateIdempotent ==
    /\ \A c \in Components : ctError[c] # "Conflict"
    /\ createdWhilePresent = 0


\* the interval the service stream groups by
IntervalSeconds == interval_map_get(req.interval, DefaultIntervalSeconds)

\* the stored rows of the requested ticker in the requested range
\* (BETWEEN includes both ends)
RowsInRange ==
    { r \in BagToSet(table) : /\ r.ticker = req.ticker
                              /\ req.start_time <= r.timestamp
                              /\ r.timestamp <= req.end_time }

\* the rows in range that the query groups with the emitted bucket b
GroupedInto(b) ==
    { r \in RowsInRange :
        r.timestamp \div IntervalSeconds = b.timestamp \div IntervalSeconds }

\* C23: for every bucket the service stream emits, every stored record grouped
\* into it has its timestamp in [bucket_start, bucket_start + I), bucket_start
\* being the timestamp of the bucket's message and I the grouping interval.
C23_BucketWindow ==
    entry = "svc" =>
        \A i \in 1..Len(out) :
            IsBucket(out[i]) =>
                \A r \in GroupedInto(out[i]) :
                    /\ out[i].timestamp <= r.timestamp
                    /\ r.timestamp < out[i].timestamp + IntervalSeconds

C23_Witness ==
    /\ entry = "svc"
    /\ Finished
    /\ \E i \in 1..Len(out) :
          IsBucket(out[i]) /\ Cardinality(GroupedInto(out[i])) >= 2

RECURSIVE SumCounts(_)
SumCounts(msgs) ==
    IF msgs = << >> THEN 0
    ELSE Head(msgs).data_point_count + SumCounts(Tail(msgs))

\* a valid service stream request has completed without an error
CompletedClean ==
    /\ entry = "svc"
    /\ Finished
    /\ ~FailsValidation
    /\ storeCalls = 1
    /\ ErrorCount(out) = 0

\* C27: when a valid stream request completes without error, the counts of the
\* emitted buckets add up to the number of stored records of the ticker in the
\* range, and no two emitted buckets have the same interval index.
C27_EveryRecordCountedOnce ==
    CompletedClean =>
        /\ SumCounts(out) = CountRows(table, RowsInRange)
        /\ \A i, j \in 1..Len(out) :
              (out[i].timestamp \div IntervalSeconds
                   = out[j].timestamp \div IntervalSeconds) => i = j

C27_Witness ==
    /\ CompletedClean
    /\ Len(out) >= 2
    /\ SumCounts(out) > Len(out)


\* C26: the error the service layer produces for a unary request reaches the
\* client unchanged: when the result of get_stock_sentiment carries an error,
\* the error of the response equals it.
C26_UnaryErrorUnchanged ==
    ( /\ entry = "unary"
      /\ pc = "Closed"
      /\ "error" \in DOMAIN result
      /\ result.error # None )
    => response.error = result.error


C25_FetchNeverRaises ==
    /\ ingPc # "Crashed"
    /\ (\E i \in 1..2 : feedSaid[i] \in {"none", "raise"}) => fetched = << >>

C29_WriteOnce == \A id \in staged : id \notin overwritten

BlobIds == [name : 1..MaxClock, by : 1..Len(IngestTickers)]

IsLatest(id) ==
    \E b \in bucket : BlobId(b) = id /\ \A c \in bucket : c.name <= b.name

====
